---- MODULE Spec2Model ----
(***************************************************************************)
(* A model of snapcraft/repo.py: the Ubuntu controller (get, unpack), the  *)
(* geoip mirror lookup, the sources.list formatter and _fix_symlinks.      *)
(*                                                                         *)
(* Four specifications share the module:                                   *)
(*   SpecGet   Ubuntu.get over a small package index                       *)
(*   SpecGeo   _get_geoip_country_code_prefix / _format_sources_list       *)
(*   SpecFix   _fix_symlinks over a family of target-root trees            *)
(*   SpecUnpack Ubuntu.unpack (extraction of staged archives, then repair) *)
(***************************************************************************)
EXTENDS Integers, Sequences, FiniteSets, TLC

VARIABLES
    \* ---- Ubuntu.get ----
    priority,            \* apt_cache: pkg.candidate.priority of every package
    depends,             \* apt_cache: the dependencies mark_install pulls in
    manifest,            \* the lines of manifest.txt
    package_names,       \* the argument of get
    manifest_dep_names,  \* the local of get
    marking,             \* apt_cache: the marking of every package
    events,              \* observable side effects of get, in order
    downloaded,          \* the archives fetch_archives has put in downloaddir
    getpc,               \* position inside get
    geti,                \* loop index of the loop get is in
    getraised,           \* the exception get raised, or NoException
    \* ---- _format_sources_list / _get_geoip_country_code_prefix ----
    arch,                \* snapcraft.common.get_arch()
    release,             \* the release argument
    response,            \* what the request to _GEOIP_SERVER will meet
    georesult,           \* the value the lookup returned
    georaised,           \* the exception class that left the lookup, or "none"
    sources_list,        \* the substitution _format_sources_list made
    geopc,               \* position inside _format_sources_list
    \* ---- Ubuntu.unpack / _fix_symlinks ----
    tree,                \* the entries under the target root (debdir)
    host,                \* the entries of the real filesystem outside debdir
    root,                \* os.walk: the directory whose entries are being handled
    files,               \* os.walk: entries of root still to handle, non-directories
    dirs,                \* os.walk: entries of root still to handle, directories
    stack,               \* os.walk: directories still to descend into, innermost first
    fixpc,               \* position inside _fix_symlinks
    runs,                \* how many times _fix_symlinks has been started
    before,              \* the tree when the current _fix_symlinks call started
    staged,              \* downloaddir: of every archive, absent, ok or corrupt
    pkgs_abs_path,       \* unpack: the archives glob.glob returned, in its order
    unpi,                \* unpack: index of the archive being extracted
    unpc,                \* position inside unpack
    unpraised,           \* the exception unpack raised, or NoException
    extracted,           \* the archives dpkg-deb extracted in this call, in order
    pre,                 \* the tree when the current call of get or unpack started
    calls                \* how many times unpack has been called

getVars == <<priority, depends, manifest, package_names, manifest_dep_names,
             marking, events, downloaded, getpc, geti, getraised>>

geoVars == <<arch, release, response, georesult, georaised, sources_list, geopc>>

fixVars == <<tree, host, root, files, dirs, stack, fixpc, runs, before>>

unpackVars == <<staged, pkgs_abs_path, unpi, unpc, unpraised, extracted, pre, calls>>

vars == <<getVars, geoVars, fixVars, unpackVars>>

NoException == [type |-> "none", package_name |-> ""]

(***************************************************************************)
(* Ubuntu.get                                                              *)
(***************************************************************************)

\* The packages apt_cache knows, in the order iterating the cache yields them.
CacheOrder == <<"curl", "libc6">>

IndexNames == {CacheOrder[k] : k \in 1..Len(CacheOrder)}

\* A name no package of the index has.
AbsentNames == {"ghost"}

RequestNames == IndexNames \cup AbsentNames

\* The priority strings python-apt reports (apt's pkgCache::Priority: "" for
\* an unknown priority), and the tier name the exclusion compares against.
Priorities == {"", "required", "important", "standard", "optional", "extra",
               "essential"}

\* Longest package_names argument explored.
MaxReq == 2

Requests == UNION {[1..n -> RequestNames] : n \in 0..MaxReq}

\* Python `s in t` for two str: s is a substring of t.
StrIn(s, t) ==
    \E a \in 1..(Len(t) + 1) : \E b \in (a - 1)..Len(t) : SubSeq(t, a, b) = s

\* Python `x in seq` for a list.
ListIn(x, seq) == \E k \in 1..Len(seq) : seq[k] = x

\* Ubuntu._manifest_dep_names: the manifest lines the cache knows.
ManifestDepNames(lines) == {pkg \in lines : pkg \in IndexNames}

RECURSIVE DepClosure(_, _)
DepClosure(S, deps) ==
    LET T == S \cup UNION {deps[p] : p \in S}
    IN  IF T = S THEN S ELSE DepClosure(T, deps)

\* apt.Package.mark_install(): the package and, with auto_inst, what it
\* depends on are marked install. A freshly opened cache has every package in
\* the keep state.
MarkInstall(m, name, deps) ==
    [p \in IndexNames |->
        IF p \in DepClosure({name}, deps) THEN "install" ELSE m[p]]

\* apt.Package.mark_keep()
MarkKeep(m, name) == [m EXCEPT ![name] = "keep"]

\* The first test of the exclusion loop.
SkipEssentialMutant(prio, name, requested) == FALSE

SkipEssential(prio, name, requested) ==
    StrIn(prio, "essential") /\ ~ListIn(name, requested)

\* The second test of the exclusion loop.
SkipManifestMutant(name, deps, requested) == FALSE

SkipManifest(name, deps, requested) ==
    name \in deps /\ ~ListIn(name, requested)

\* The exception a failed lookup self.apt_cache[name] ends in.
LookupErrorMutant(name) == [type |-> "KeyError", package_name |-> name]

LookupError(name) == [type |-> "PackageNotFoundError", package_name |-> name]

GetStart ==
    /\ priority \in [IndexNames -> Priorities]
    /\ depends \in [IndexNames -> SUBSET IndexNames]
    /\ \A p \in IndexNames : p \notin depends[p]
    /\ manifest \in SUBSET RequestNames
    /\ package_names \in Requests
    /\ manifest_dep_names = {}
    /\ marking = [p \in IndexNames |-> "keep"]
    /\ events = <<>>
    /\ downloaded = {}
    /\ getpc = "idle"
    /\ geti = 1
    /\ getraised = NoException

\* get, lines 73-75: makedirs and the manifest intersection.
GetBegin ==
    /\ getpc = "idle"
    /\ manifest_dep_names' = ManifestDepNames(manifest)
    /\ getpc' = "mark"
    /\ geti' = 1
    /\ UNCHANGED <<priority, depends, manifest, package_names, marking, events,
                   downloaded, getraised>>
    /\ UNCHANGED <<geoVars, fixVars, unpackVars>>

\* get, lines 77-81: one iteration of the marking loop.
GetMark ==
    /\ getpc = "mark"
    /\ geti <= Len(package_names)
    /\ LET name == package_names[geti] IN
           IF name \in IndexNames
           THEN /\ marking' = MarkInstall(marking, name, depends)
                /\ events' = Append(events, [op |-> "mark_install", pkg |-> name])
                /\ geti' = geti + 1
                /\ UNCHANGED <<getpc, getraised>>
           ELSE /\ getraised' = LookupError(name)
                /\ getpc' = "raised"
                /\ UNCHANGED <<marking, events, geti>>
    /\ UNCHANGED <<priority, depends, manifest, package_names,
                   manifest_dep_names, downloaded>>
    /\ UNCHANGED <<geoVars, fixVars, unpackVars>>

\* get: the marking loop is exhausted, the exclusion loop starts.
GetMarked ==
    /\ getpc = "mark"
    /\ geti > Len(package_names)
    /\ getpc' = "exclude"
    /\ geti' = 1
    /\ UNCHANGED <<priority, depends, manifest, package_names,
                   manifest_dep_names, marking, events, downloaded, getraised>>
    /\ UNCHANGED <<geoVars, fixVars, unpackVars>>

\* get, lines 88-99: one iteration of the exclusion loop.
GetExclude ==
    /\ getpc = "exclude"
    /\ geti <= Len(CacheOrder)
    /\ LET name == CacheOrder[geti] IN
           IF SkipEssential(priority[name], name, package_names)
           THEN /\ events' = events \o <<[op |-> "skip_essential", pkg |-> name],
                                         [op |-> "mark_keep", pkg |-> name]>>
                /\ marking' = MarkKeep(marking, name)
           ELSE IF SkipManifest(name, manifest_dep_names, package_names)
           THEN /\ events' = events \o <<[op |-> "skip_manifest", pkg |-> name],
                                         [op |-> "mark_keep", pkg |-> name]>>
                /\ marking' = MarkKeep(marking, name)
           ELSE UNCHANGED <<events, marking>>
    /\ geti' = geti + 1
    /\ UNCHANGED <<priority, depends, manifest, package_names,
                   manifest_dep_names, downloaded, getpc, getraised>>
    /\ UNCHANGED <<geoVars, fixVars, unpackVars>>

\* get, lines 101-102: fetch_archives downloads what is still marked install.
GetFetch ==
    /\ getpc = "exclude"
    /\ geti > Len(CacheOrder)
    /\ downloaded' = downloaded \cup {p \in IndexNames : marking[p] = "install"}
    /\ events' = Append(events, [op |-> "fetch_archives", pkg |-> ""])
    /\ getpc' = "done"
    /\ UNCHANGED <<priority, depends, manifest, package_names,
                   manifest_dep_names, marking, geti, getraised>>
    /\ UNCHANGED <<geoVars, fixVars, unpackVars>>

GetIdle ==
    /\ priority = [p \in IndexNames |-> "optional"]
    /\ depends = [p \in IndexNames |-> {}]
    /\ manifest = {}
    /\ package_names = <<>>
    /\ manifest_dep_names = {}
    /\ marking = [p \in IndexNames |-> "keep"]
    /\ events = <<>>
    /\ downloaded = {}
    /\ getpc = "unused"
    /\ geti = 1
    /\ getraised = NoException

(***************************************************************************)
(* _get_geoip_country_code_prefix and _format_sources_list                 *)
(***************************************************************************)

Archs == {"amd64", "i386", "armhf", "arm64"}

Releases == {"vivid", "trusty"}

\* The exception classes the try block of the lookup can meet: urlopen wraps
\* connection failures in URLError (HTTPError is a subclass) but lets
\* http.client errors of getresponse through; read() wraps nothing;
\* ElementTree.fromstring raises ParseError.
OpenErrors == {"URLError", "HTTPError", "BadStatusLine"}
ReadErrors == {"IncompleteRead", "ConnectionResetError"}

\* The text of the CountryCode element when it has one.
CountryTexts == {"US", "de", "Fr"}

Responses ==
    [kind : {"open_error"}, detail : OpenErrors]
    \cup [kind : {"read_error"}, detail : ReadErrors]
    \cup [kind : {"malformed_xml"}, detail : {"ParseError"}]
    \cup [kind : {"no_country_code"}, detail : {""}]
    \cup [kind : {"country_code_without_text"}, detail : {""}]
    \cup [kind : {"country_code"}, detail : CountryTexts]

\* The except clause of the lookup, line 136: the classes it names and
\* their subclasses.
Caught(class) == class \in {"ParseError", "URLError", "HTTPError"}

LowerChar(c) ==
    CASE c = "U" -> "u" [] c = "S" -> "s" [] c = "F" -> "f" [] c = "D" -> "d"
      [] c = "E" -> "e" [] c = "R" -> "r" [] OTHER -> c

\* str.lower()
RECURSIVE Lower(_)
Lower(str) ==
    IF Len(str) = 0 THEN ""
    ELSE LowerChar(SubSeq(str, 1, 1)) \o Lower(SubSeq(str, 2, Len(str)))

\* _get_geoip_country_code_prefix on a given response: what it returns and
\* the exception class that leaves it.
GetGeoipCountryCodePrefix(resp) ==
    CASE resp.kind \in {"open_error", "read_error", "malformed_xml"} ->
            IF Caught(resp.detail)
            THEN [value |-> "", raised |-> "none"]
            ELSE [value |-> "", raised |-> resp.detail]
      [] resp.kind = "no_country_code" ->
            [value |-> "", raised |-> "none"]
      [] resp.kind = "country_code_without_text" ->
            \* cc.text is None: None.lower()
            [value |-> "", raised |-> "AttributeError"]
      [] OTHER ->
            [value |-> Lower(resp.detail), raised |-> "none"]

NoSources == [prefix |-> "", suffix |-> "", security |-> "", release |-> "",
              line |-> ""]

\* string.Template(sources).substitute(...) on the first line of
\* _DEFAULT_SOURCES.
Substitute(prefix, rel, suffix, security) ==
    [prefix |-> prefix, suffix |-> suffix, security |-> security, release |-> rel,
     line |-> "deb http://" \o prefix \o ".ubuntu.com/" \o suffix \o "/ "
               \o rel \o " main restricted"]

GeoStart ==
    /\ arch \in Archs
    /\ release \in Releases
    /\ response \in Responses
    /\ georesult = ""
    /\ georaised = "none"
    /\ sources_list = NoSources
    /\ geopc = "idle"

GeoIdle ==
    /\ arch = "amd64"
    /\ release = "vivid"
    /\ response = [kind |-> "no_country_code", detail |-> ""]
    /\ georesult = ""
    /\ georaised = "none"
    /\ sources_list = NoSources
    /\ geopc = "unused"

\* _format_sources_list, line 143: the call of the lookup.
GeoLookup ==
    /\ geopc = "idle"
    /\ arch \in {"amd64", "i386"}
    /\ LET r == GetGeoipCountryCodePrefix(response) IN
           /\ georesult' = r.value
           /\ georaised' = r.raised
           /\ geopc' = IF r.raised = "none" THEN "looked" ELSE "raised"
    /\ UNCHANGED <<arch, release, response, sources_list>>
    /\ UNCHANGED <<getVars, fixVars, unpackVars>>

\* _format_sources_list, lines 143-156, primary architectures.
FormatPrimary ==
    /\ geopc = "looked"
    /\ sources_list' = Substitute(georesult \o ".archive", release, "ubuntu", "security")
    /\ geopc' = "done"
    /\ UNCHANGED <<arch, release, response, georesult, georaised>>
    /\ UNCHANGED <<getVars, fixVars, unpackVars>>

\* _format_sources_list, lines 146-156, the other architectures.
FormatPorts ==
    /\ geopc = "idle"
    /\ arch \notin {"amd64", "i386"}
    /\ sources_list' = Substitute("ports", release, "ubuntu-ports", "ports")
    /\ geopc' = "done"
    /\ UNCHANGED <<arch, release, response, georesult, georaised>>
    /\ UNCHANGED <<getVars, fixVars, unpackVars>>


(***************************************************************************)
(* The filesystem: paths, symlinks and the os / os.path calls of           *)
(* _fix_symlinks                                                           *)
(***************************************************************************)

\* Entry names, and the path components a symlink target is made of.
Names == {"a", "b"}

Comps == Names \cup {".."}

\* Sequences of one or two members of S.
OneOrTwo(S) == {<<x>> : x \in S} \cup {<<x, y>> : x \in S, y \in S}

\* The paths of entries below a root directory, as component sequences: the
\* entries of the root and the entries of its subdirectories.
Paths == OneOrTwo(Names)

\* Largest number of entries of the trees explored.
MaxEntries == 3

\* The absolute path of the target root on the real filesystem: a directory
\* whose name is none of Names.
Debdir == <<"T">>

NoNode == [kind |-> "none", abs |-> FALSE, comps |-> <<>>, data |-> 0]

DirNode == [kind |-> "dir", abs |-> FALSE, comps |-> <<>>, data |-> 0]

FileNode(d) == [kind |-> "file", abs |-> FALSE, comps |-> <<>>, data |-> d]

\* A symlink: os.readlink is "/" + "/".join(comps) when abs, "/".join(comps)
\* otherwise ("." when comps is empty).
LinkNode(isabs, comps) == [kind |-> "link", abs |-> isabs, comps |-> comps, data |-> 0]

Parent(p) == SubSeq(p, 1, Len(p) - 1)

\* lstat of an absolute path of the real filesystem.
NodeAt(t, h, p) ==
    IF p = <<>> \/ p = Debdir THEN DirNode
    ELSE IF p[1] = Debdir[1]
         THEN IF Tail(p) \in DOMAIN t THEN t[Tail(p)] ELSE NoNode
         ELSE IF p \in DOMAIN h THEN h[p] ELSE NoNode

\* Symlinks followed in one path resolution before it fails with ELOOP (the
\* kernel allows 40; no resolution that ends needs that many in these trees).
MaxFollow == 8

NoEntry == [ok |-> FALSE, path |-> <<>>, kind |-> "none"]

\* Path resolution as stat() does it: from the directory cur (an absolute
\* path without symlinks), component by component, following every symlink.
RECURSIVE Resolve(_, _, _, _, _)
Resolve(t, h, cur, comps, fuel) ==
    IF comps = <<>> THEN [ok |-> TRUE, path |-> cur, kind |-> "dir"]
    ELSE IF Head(comps) = ".."
    THEN Resolve(t, h, Parent(cur), Tail(comps), fuel)
    ELSE LET child == Append(cur, Head(comps))
             node  == NodeAt(t, h, child)
         IN  CASE node.kind = "none" -> NoEntry
               [] node.kind = "file" ->
                    IF Tail(comps) = <<>>
                    THEN [ok |-> TRUE, path |-> child, kind |-> "file"]
                    ELSE NoEntry
               [] node.kind = "dir" -> Resolve(t, h, child, Tail(comps), fuel)
               [] OTHER ->
                    IF fuel = 0 THEN NoEntry
                    ELSE Resolve(t, h, IF node.abs THEN <<>> ELSE cur,
                                 node.comps \o Tail(comps), fuel - 1)

\* os.path.join(debdir, os.readlink(path)[1:]) for an absolute symlink.
Rebased(node) == Debdir \o node.comps

\* stat of an absolute path given as components from the filesystem root.
Stat(t, h, p) == Resolve(t, h, <<>>, p, MaxFollow)

\* os.path.exists
Exists(t, h, p) == Stat(t, h, p).ok

\* os.path.isdir
IsDir(t, h, p) == Stat(t, h, p).kind = "dir"

\* os.path.islink of an entry under the target root
IsLink(t, p) == t[p].kind = "link"

\* os.path.normpath of an absolute path: "x/.." and a leading ".." collapse
\* textually.
RECURSIVE NormPath(_, _)
NormPath(done, rest) ==
    IF rest = <<>> THEN done
    ELSE IF Head(rest) = ".."
         THEN NormPath(Parent(done), Tail(rest))
         ELSE NormPath(Append(done, Head(rest)), Tail(rest))

RECURSIVE CommonLen(_, _)
CommonLen(x, y) ==
    IF x = <<>> \/ y = <<>> \/ Head(x) # Head(y) THEN 0
    ELSE 1 + CommonLen(Tail(x), Tail(y))

\* os.path.relpath(target, start), both absolute: the components of the
\* result (none for ".").
RelPath(target, start) ==
    LET tn == NormPath(<<>>, target)
        sn == NormPath(<<>>, start)
        c  == CommonLen(tn, sn)
    IN  [k \in 1..(Len(sn) - c) |-> ".."] \o SubSeq(tn, c + 1, Len(tn))

\* The condition of lines 185 and 187 on an entry of the tree.
RewritesMutant(t, h, p) == IsLink(t, p) /\ t[p].abs

Rewrites(t, h, p) ==
    /\ IsLink(t, p)
    /\ t[p].abs
    /\ Exists(t, h, Rebased(t[p]))

\* Lines 188-189: os.remove(path); os.symlink(os.path.relpath(target, root), path)
RelinkedMutant(t, p) == [t EXCEPT ![p] = NoNode]

Relinked(t, p) ==
    [t EXCEPT ![p] = LinkNode(FALSE, RelPath(Rebased(t[p]), Debdir \o Parent(p)))]

\* The entries os.listdir(debdir + dir) names.
Listing(t, dir) == {n \in Names : Append(dir, n) \in DOMAIN t /\ t[Append(dir, n)].kind # "none"}

(***************************************************************************)
(* The trees _fix_symlinks is run on                                       *)
(***************************************************************************)

LinkTargets == [abs : BOOLEAN, comps : OneOrTwo(Comps)]

\* Every entry has a real directory as its parent.
WellFormed(k) ==
    \A p \in Paths : (k[p] # "none" /\ Len(p) > 1) => k[Parent(p)] = "dir"

Shapes ==
    {k \in [Paths -> {"none", "file", "dir", "link"}] :
        /\ WellFormed(k)
        /\ Cardinality({p \in Paths : k[p] # "none"}) <= MaxEntries}

MakeTree(k, tg) ==
    [p \in Paths |->
        CASE k[p] = "none" -> NoNode
          [] k[p] = "file" -> FileNode(0)
          [] k[p] = "dir" -> DirNode
          [] OTHER -> LinkNode(tg[p].abs, tg[p].comps)]

\* The real filesystem outside the target root: nothing of these names, or a
\* directory for every name with a file for every name inside.
HostTrees ==
    { [p \in Paths |-> "none"],
      [p \in Paths |-> IF Len(p) = 1 THEN "dir" ELSE IF Len(p) = 2 THEN "file" ELSE "none"] }

HostOf(hk) == [p \in Paths |-> IF hk[p] = "dir" THEN DirNode
                               ELSE IF hk[p] = "file" THEN FileNode(0) ELSE NoNode]

(***************************************************************************)
(* _fix_symlinks                                                           *)
(***************************************************************************)

\* How many times in a row _fix_symlinks is called.
MaxRuns == 2

FixStart ==
    /\ \E k \in Shapes :
          \E tg \in [{p \in Paths : k[p] = "link"} -> LinkTargets] :
              tree = MakeTree(k, tg)
    /\ \E hk \in HostTrees : host = HostOf(hk)
    /\ root = <<>>
    /\ files = {}
    /\ dirs = {}
    /\ stack = <<>>
    /\ fixpc = "idle"
    /\ runs = 0
    /\ before = tree

FixIdle ==
    /\ tree = [p \in Paths |-> NoNode]
    /\ host = [p \in Paths |-> NoNode]
    /\ root = <<>>
    /\ files = {}
    /\ dirs = {}
    /\ stack = <<>>
    /\ fixpc = "unused"
    /\ runs = 0
    /\ before = tree

\* The call _fix_symlinks(debdir): os.walk starts at debdir.
FixCall ==
    /\ fixpc \in {"idle", "done"}
    /\ runs < MaxRuns
    /\ runs' = runs + 1
    /\ before' = tree
    /\ stack' = << {<<>>} >>
    /\ fixpc' = "walk"
    /\ UNCHANGED <<tree, host, root, files, dirs>>
    /\ UNCHANGED <<getVars, geoVars, unpackVars>>

Pop(st, d) ==
    IF st[1] = {d} THEN Tail(st) ELSE [st EXCEPT ![1] = st[1] \ {d}]

\* os.walk, line 180: the next directory is listed, its entries split into
\* dirs (os.path.isdir, which follows symlinks) and files. A symlink among
\* the dirs of its parent is not descended into.
WalkList ==
    /\ fixpc = "walk"
    /\ files = {} /\ dirs = {}
    /\ stack # <<>>
    /\ \E d \in stack[1] :
          IF d # <<>> /\ IsLink(tree, d)
          THEN /\ stack' = Pop(stack, d)
               /\ UNCHANGED <<root, files, dirs>>
          ELSE LET names == Listing(tree, d)
                   isdir == {n \in names : IsDir(tree, host, Debdir \o Append(d, n))}
                   sub   == {Append(d, n) : n \in isdir}
               IN  /\ root' = d
                   /\ dirs' = isdir
                   /\ files' = names \ isdir
                   /\ stack' = IF sub = {} THEN Pop(stack, d)
                               ELSE <<sub>> \o Pop(stack, d)
    /\ UNCHANGED <<tree, host, fixpc, runs, before>>
    /\ UNCHANGED <<getVars, geoVars, unpackVars>>

\* Lines 183-189: the body of the loops for one entry; itertools.chain
\* yields the files before the dirs.
FixEntry ==
    /\ fixpc = "walk"
    /\ files # {} \/ dirs # {}
    /\ \E entry \in (IF files # {} THEN files ELSE dirs) :
          LET path == Append(root, entry) IN
              /\ tree' = IF Rewrites(tree, host, path) THEN Relinked(tree, path) ELSE tree
              /\ IF files # {}
                 THEN files' = files \ {entry} /\ UNCHANGED dirs
                 ELSE dirs' = dirs \ {entry} /\ UNCHANGED files
    /\ UNCHANGED <<host, root, stack, fixpc, runs, before>>
    /\ UNCHANGED <<getVars, geoVars, unpackVars>>

\* os.walk is exhausted: _fix_symlinks returns.
FixReturn ==
    /\ fixpc = "walk"
    /\ files = {} /\ dirs = {}
    /\ stack = <<>>
    /\ fixpc' = "done"
    /\ UNCHANGED <<tree, host, root, files, dirs, stack, runs, before>>
    /\ UNCHANGED <<getVars, geoVars, unpackVars>>

(***************************************************************************)
(* Ubuntu.unpack                                                           *)
(***************************************************************************)

\* The archives fetch_archives can put into downloaddir and the members
\* dpkg-deb --extract writes for each: a file, an absolute symlink to that
\* file, and an archive that ships both paths again.
Debs == {"curl.deb", "libc6.deb", "zlib.deb"}

Members(d) ==
    CASE d = "curl.deb" -> (<<"b", "a">> :> FileNode(1))
      [] d = "libc6.deb" -> (<<"b", "b">> :> LinkNode(TRUE, <<"b", "a">>))
      [] OTHER -> (<<"b", "a">> :> LinkNode(TRUE, <<"a">>)) @@ (<<"b", "b">> :> FileNode(3))

\* Largest number of archives in downloaddir, of entries in the target root
\* before the first call, and of calls of unpack.
MaxStaged == 2

MaxPreEntries == 1

MaxUnpacks == 2

\* dpkg-deb --extract of the members S of archive d into the tree: missing
\* parent directories are made, an existing non-directory of the same path
\* is replaced.
ExtractMembers(t, d, S) ==
    [p \in Paths |->
        IF p \in S THEN Members(d)[p]
        ELSE IF t[p].kind = "none" /\ \E q \in S : Len(q) > Len(p) /\ SubSeq(q, 1, Len(p)) = p
             THEN DirNode
             ELSE t[p]]

\* The trees dpkg-deb can extract every archive into: where a member needs a
\* directory there is none or a real one. The entries present before the
\* first call are at other paths than the members of the archives.
Extractable(t) ==
    \A d \in Debs : \A p \in DOMAIN Members(d) :
        /\ t[p].kind = "none"
        /\ Len(p) > 1 => t[Parent(p)].kind \in {"none", "dir"}

\* Line 111
UnpackErrorMutant(pkg, rootdir) == [type |-> "UnpackError", package_name |-> rootdir]

UnpackError(pkg, rootdir) == [type |-> "UnpackError", package_name |-> pkg]

Orderings(S) ==
    {f \in [1..Cardinality(S) -> S] : \A i, j \in 1..Cardinality(S) : f[i] = f[j] => i = j}

Present == {d \in Debs : staged[d] # "absent"}

UnpackStart ==
    /\ \E k \in Shapes :
          /\ Cardinality({p \in Paths : k[p] # "none"}) <= MaxPreEntries
          /\ \E tg \in [{p \in Paths : k[p] = "link"} -> LinkTargets] :
                tree = MakeTree(k, tg)
    /\ Extractable(tree)
    /\ \E hk \in HostTrees : host = HostOf(hk)
    /\ root = <<>>
    /\ files = {}
    /\ dirs = {}
    /\ stack = <<>>
    /\ fixpc = "idle"
    /\ runs = 0
    /\ before = tree
    /\ staged = [d \in Debs |-> "absent"]
    /\ pkgs_abs_path = <<>>
    /\ unpi = 1
    /\ unpc = "idle"
    /\ unpraised = NoException
    /\ extracted = <<>>
    /\ pre = tree
    /\ calls = 0

UnpackIdle ==
    /\ staged = [d \in Debs |-> "absent"]
    /\ pkgs_abs_path = <<>>
    /\ unpi = 1
    /\ unpc = "unused"
    /\ unpraised = NoException
    /\ extracted = <<>>
    /\ pre = [p \in Paths |-> NoNode]
    /\ calls = 0

\* What a call of get does to the filesystem: fetch_archives leaves an
\* archive, whole or damaged, in downloaddir. The target root is not touched.
Fetch ==
    /\ unpc = "idle"
    /\ Cardinality(Present) < MaxStaged
    /\ \E d \in Debs \ Present : \E state \in {"ok", "corrupt"} :
          staged' = [staged EXCEPT ![d] = state]
    /\ pre' = tree
    /\ UNCHANGED <<pkgs_abs_path, unpi, unpc, unpraised, extracted, calls>>
    /\ UNCHANGED <<getVars, geoVars, fixVars>>

\* unpack, line 105: glob.glob lists the archives in an arbitrary order.
UnpackCall ==
    /\ unpc = "idle"
    /\ calls < MaxUnpacks
    /\ calls' = calls + 1
    /\ pkgs_abs_path' \in Orderings(Present)
    /\ unpi' = 1
    /\ extracted' = <<>>
    /\ pre' = tree
    /\ unpc' = "extract"
    /\ UNCHANGED <<staged, unpraised>>
    /\ UNCHANGED <<getVars, geoVars, fixVars>>

\* unpack, lines 106-109: dpkg-deb extracts the next archive and exits 0.
UnpackExtract ==
    /\ unpc = "extract"
    /\ unpi <= Len(pkgs_abs_path)
    /\ LET pkg == pkgs_abs_path[unpi] IN
          /\ staged[pkg] = "ok"
          /\ tree' = ExtractMembers(tree, pkg, DOMAIN Members(pkg))
          /\ extracted' = Append(extracted, pkg)
    /\ unpi' = unpi + 1
    /\ UNCHANGED <<staged, pkgs_abs_path, unpc, unpraised, pre, calls>>
    /\ UNCHANGED <<host, root, files, dirs, stack, fixpc, runs, before>>
    /\ UNCHANGED <<getVars, geoVars>>

\* unpack, lines 108-111: dpkg-deb exits non-zero, having written some of the
\* members; check_call raises CalledProcessError and unpack UnpackError.
UnpackFail ==
    /\ unpc = "extract"
    /\ unpi <= Len(pkgs_abs_path)
    /\ LET pkg == pkgs_abs_path[unpi] IN
          /\ staged[pkg] = "corrupt"
          /\ \E S \in SUBSET DOMAIN Members(pkg) : tree' = ExtractMembers(tree, pkg, S)
          /\ unpraised' = UnpackError(pkg, "rootdir")
    /\ unpc' = "raised"
    /\ UNCHANGED <<staged, pkgs_abs_path, unpi, extracted, pre, calls>>
    /\ UNCHANGED <<host, root, files, dirs, stack, fixpc, runs, before>>
    /\ UNCHANGED <<getVars, geoVars>>

\* unpack, line 113: every archive is extracted, _fix_symlinks(rootdir) is
\* called.
UnpackRepair ==
    /\ unpc = "extract"
    /\ unpi > Len(pkgs_abs_path)
    /\ unpc' = "repair"
    /\ runs' = runs + 1
    /\ before' = tree
    /\ stack' = << {<<>>} >>
    /\ fixpc' = "walk"
    /\ UNCHANGED <<staged, pkgs_abs_path, unpi, unpraised, extracted, pre, calls>>
    /\ UNCHANGED <<tree, host, root, files, dirs>>
    /\ UNCHANGED <<getVars, geoVars>>

\* _fix_symlinks has returned and unpack returns.
UnpackReturn ==
    /\ unpc = "repair"
    /\ fixpc = "done"
    /\ unpc' = "idle"
    /\ fixpc' = "idle"
    /\ UNCHANGED <<staged, pkgs_abs_path, unpi, unpraised, extracted, pre, calls>>
    /\ UNCHANGED <<tree, host, root, files, dirs, stack, runs, before>>
    /\ UNCHANGED <<getVars, geoVars>>

(***************************************************************************)
(* Specifications                                                          *)
(***************************************************************************)

GetInit == GetStart /\ GeoIdle /\ FixIdle /\ UnpackIdle

GetNext == GetBegin \/ GetMark \/ GetMarked \/ GetExclude \/ GetFetch

SpecGet == GetInit /\ [][GetNext]_vars

GeoInit == GeoStart /\ GetIdle /\ FixIdle /\ UnpackIdle

GeoNext == GeoLookup \/ FormatPrimary \/ FormatPorts

SpecGeo == GeoInit /\ [][GeoNext]_vars

FixInit == FixStart /\ GetIdle /\ GeoIdle /\ UnpackIdle

FixNext == FixCall \/ WalkList \/ FixEntry \/ FixReturn

SpecFix == FixInit /\ [][FixNext]_vars

UnpackInit == UnpackStart /\ GetIdle /\ GeoIdle

UnpackNext ==
    \/ Fetch \/ UnpackCall \/ UnpackExtract \/ UnpackFail \/ UnpackRepair
    \/ WalkList \/ FixEntry \/ FixReturn \/ UnpackReturn

SpecUnpack == UnpackInit /\ [][UnpackNext]_vars

(***************************************************************************)
(* Properties of Ubuntu.get                                                *)
(***************************************************************************)

Requested(p) == ListIn(p, package_names)

ExclusionOps == {"skip_essential", "skip_manifest", "mark_keep"}

NoExclusionYet == \A k \in 1..Len(events) : events[k].op \notin ExclusionOps

NothingFetched ==
    /\ downloaded = {}
    /\ \A k \in 1..Len(events) : events[k].op # "fetch_archives"

HasAbsentName == \E k \in 1..Len(package_names) : package_names[k] \notin IndexNames

FirstAbsentName ==
    package_names[CHOOSE k \in 1..Len(package_names) :
                      /\ package_names[k] \notin IndexNames
                      /\ \A j \in 1..(k - 1) : package_names[j] \in IndexNames]

ExclusionPassDone == getpc = "done" \/ (getpc = "exclude" /\ geti > Len(CacheOrder))

\* C1: a get whose request holds a name the index lacks never reaches the
\* exclusion loop or the fetch; it ends raising PackageNotFoundError carrying
\* that name, with no mark_keep, no skip notice and no archive fetched.
C1_NotFoundBeforeExclusion ==
    /\ HasAbsentName =>
          /\ getpc \in {"idle", "mark", "raised"}
          /\ NoExclusionYet
          /\ NothingFetched
    /\ getpc = "raised" =>
          /\ HasAbsentName
          /\ getraised = [type |-> "PackageNotFoundError",
                          package_name |-> FirstAbsentName]
    /\ getpc # "raised" => getraised = NoException

\* A get that raised after marking a first name, with another package of the
\* index that the exclusion loop would have skipped.
C1_Witness ==
    /\ getpc = "raised"
    /\ Len(package_names) = 2
    /\ package_names[1] \in IndexNames
    /\ getraised.package_name = "ghost"
    /\ \E p \in IndexNames :
          /\ ~Requested(p)
          /\ priority[p] = "essential"
          /\ p \in manifest
          /\ marking[p] = "install"

\* C2: once the exclusion loop has run, no package of priority "essential" is
\* marked install unless it was requested.
C2_EssentialKept ==
    ExclusionPassDone =>
        \A p \in IndexNames :
            (priority[p] = "essential" /\ marking[p] = "install") => Requested(p)

\* An essential package a requested one depends on, not in the manifest, is
\* kept at the end of get.
C2_Witness ==
    /\ getpc = "done"
    /\ \E p \in IndexNames : \E q \in IndexNames :
          /\ priority[p] = "essential"
          /\ ~Requested(p)
          /\ p \notin manifest
          /\ Requested(q)
          /\ p \in depends[q]
          /\ marking[p] = "keep"
          /\ marking[q] = "install"

\* C3: once the exclusion loop has run, no package named by the manifest and
\* known to the index is marked install unless it was requested.
C3_ManifestKept ==
    ExclusionPassDone =>
        \A p \in IndexNames :
            (p \in manifest /\ marking[p] = "install") => Requested(p)

\* A manifest package of an ordinary priority that a requested one depends
\* on is kept at the end of get.
C3_Witness ==
    /\ getpc = "done"
    /\ \E p \in IndexNames : \E q \in IndexNames :
          /\ p \in manifest
          /\ priority[p] = "optional"
          /\ ~Requested(p)
          /\ Requested(q)
          /\ p \in depends[q]
          /\ marking[p] = "keep"
          /\ marking[q] = "install"

\* C9: the exclusion loop changes the marking only of packages that are not
\* requested and are of priority "essential" or in the manifest intersection,
\* and every requested package is still marked install when fetch starts.
C9_ExclusionFrame ==
    /\ [][getpc = "exclude" =>
            \A p \in IndexNames :
                marking'[p] # marking[p] =>
                    /\ ~Requested(p)
                    /\ (priority[p] = "essential" \/ p \in manifest)]_vars
    /\ [](ExclusionPassDone => \A p \in IndexNames : Requested(p) => marking[p] = "install")

(***************************************************************************)
(* Properties of the geo lookup                                            *)
(***************************************************************************)

LookupFailed == response.kind # "country_code"

\* C6: the lookup never raises; whenever the request or the response fails
\* (error at open or during read, malformed XML, no CountryCode element, a
\* CountryCode element with no text) it returns "" and the prefix becomes
\* ".archive".
C6_GeoNeverRaises ==
    /\ georaised = "none"
    /\ geopc # "raised"
    /\ (geopc \in {"looked", "done"} /\ LookupFailed) => georesult = ""
    /\ (geopc = "done" /\ arch \in {"amd64", "i386"} /\ LookupFailed) =>
            sources_list.prefix = ".archive"

(***************************************************************************)
(* Properties of _fix_symlinks                                             *)
(***************************************************************************)

AbsLink(t, p) == IsLink(t, p) /\ t[p].abs

RelLink(t, p) == IsLink(t, p) /\ ~t[p].abs

\* The step of the walk that handles the entry e of root.
Visits(e) ==
    /\ fixpc = "walk"
    /\ e \in files \cup dirs
    /\ e \notin files' \cup dirs'

\* C4: a second run of _fix_symlinks right after the first changes nothing
\* in the tree.
C4_Idempotent == runs >= 2 => tree = before

\* C8: no step of _fix_symlinks changes a relative symlink, nor an absolute
\* symlink whose target, rebased under the target root, does not exist.
C8_Untouched ==
    [][\A p \in Paths :
          (RelLink(tree, p) \/ (AbsLink(tree, p) /\ ~Exists(tree, host, Rebased(tree[p]))))
              => tree'[p] = tree[p]]_vars

\* A finished run that walked over a relative symlink and an absolute symlink
\* whose rebased target does not exist, and left both as they were.
C8_Witness ==
    /\ fixpc = "done"
    /\ \E p \in Paths : \E q \in Paths :
          /\ RelLink(before, p) /\ tree[p] = before[p]
          /\ AbsLink(before, q) /\ tree[q] = before[q]
          /\ ~Exists(before, host, Rebased(before[q]))
          /\ ~Exists(tree, host, Rebased(tree[q]))

\* C10: when the walk visits an absolute symlink whose rebased target exists,
\* the entry becomes a relative symlink that, resolved from the directory of
\* the symlink, is the entry the rebased target is.
C10_SameEntry ==
    [][\A e \in Names :
          (/\ Visits(e)
           /\ AbsLink(tree, Append(root, e))
           /\ Exists(tree, host, Rebased(tree[Append(root, e)])))
          => LET path == Append(root, e) IN
                /\ RelLink(tree', path)
                /\ Resolve(tree', host, Debdir \o root, tree'[path].comps, MaxFollow)
                      = Stat(tree', host, Rebased(tree[path]))]_vars

(***************************************************************************)
(* Properties of Ubuntu.unpack                                             *)
(***************************************************************************)

MemberPaths == UNION {DOMAIN Members(d) : d \in Debs}

\* C5: a call of get or unpack leaves every entry that was in the target root
\* before the call as it was, except a symlink the core itself extracted.
C5_OnlyGrows ==
    \A p \in Paths :
        pre[p].kind # "none" =>
            \/ tree[p] = pre[p]
            \/ IsLink(pre, p) /\ p \in MemberPaths

\* The archives dpkg-deb was run on in the current call.
Attempted ==
    {extracted[k] : k \in 1..Len(extracted)}
        \cup (IF unpc = "raised" THEN {pkgs_abs_path[unpi]} ELSE {})

\* What symlink repair makes of an absolute symlink at path p.
Repaired(node, p) == LinkNode(FALSE, RelPath(Rebased(node), Debdir \o Parent(p)))

\* C5 as amended: an entry that was in the target root before the call is
\* never removed; it is as it was, or a member an archive of this call has
\* for its path, or, when one of these is an absolute symlink, the relative
\* symlink repair puts in its place - also when the symlink was there before
\* the call.
C5_GrowsButRepairsAnySymlink ==
    \A p \in Paths :
        pre[p].kind # "none" =>
            LET given == {pre[p]} \cup {Members(d)[p] : d \in {x \in Attempted : p \in DOMAIN Members(x)}}
            IN  /\ tree[p].kind # "none"
                /\ \/ tree[p] \in given
                   \/ \E n \in given : n.kind = "link" /\ n.abs /\ tree[p] = Repaired(n, p)

\* unpack has returned after extracting an archive, and a symlink that was in
\* the target root before the call has been replaced by repair.
C5_Witness ==
    /\ unpc = "idle"
    /\ calls = 1
    /\ extracted # <<>>
    /\ \E p \in Paths :
          /\ AbsLink(pre, p)
          /\ p \notin MemberPaths
          /\ Exists(tree, host, Debdir \o <<"b", "a">>)
          /\ pre[p].comps = <<"b", "a">>
          /\ tree[p] = Repaired(pre[p], p)

\* C7: unpack raises UnpackError naming the first archive, in glob order, that
\* dpkg-deb fails on; the archives before it, and no other, were extracted,
\* their members are still in the tree, and _fix_symlinks was not called. A
\* call that gets past the extraction met no damaged archive.
C7_FirstFailureStops ==
    /\ unpc = "raised" =>
          LET pkg == pkgs_abs_path[unpi] IN
              /\ unpraised = [type |-> "UnpackError", package_name |-> pkg]
              /\ staged[pkg] = "corrupt"
              /\ \A k \in 1..(unpi - 1) : staged[pkgs_abs_path[k]] = "ok"
              /\ extracted = SubSeq(pkgs_abs_path, 1, unpi - 1)
              /\ fixpc = "idle"
              /\ runs = calls - 1
              /\ \A k \in 1..(unpi - 1) :
                    \A p \in DOMAIN Members(pkgs_abs_path[k]) :
                        /\ tree[p].kind # "none"
                        /\ \/ tree[p] = Members(pkgs_abs_path[k])[p]
                           \/ \E j \in (k + 1)..unpi : p \in DOMAIN Members(pkgs_abs_path[j])
    /\ unpc # "raised" => unpraised = NoException
    /\ unpc = "extract" => extracted = SubSeq(pkgs_abs_path, 1, unpi - 1)
    /\ unpc \in {"repair", "idle"} =>
          \A k \in 1..Len(pkgs_abs_path) : staged[pkgs_abs_path[k]] = "ok"

\* The second of two staged archives is damaged: unpack has raised, and the
\* members of the first are in a tree that did not have them before.
C7_Witness ==
    /\ unpc = "raised"
    /\ unpi = 2
    /\ Len(pkgs_abs_path) = 2
    /\ \A p \in DOMAIN Members(pkgs_abs_path[1]) :
          pre[p].kind = "none" /\ tree[p] = Members(pkgs_abs_path[1])[p]

====
